---------------------------- MODULE Spec2Model ----------------------------
(***************************************************************************)
(* Model of scripts/ci_band_suite.py: the adaptive invocation prober.      *)
(*                                                                         *)
(* Python strings are modelled as sequences of one-character strings, so   *)
(* that the regular expressions, the substring tests, str.lower, sorted    *)
(* and " ".join are computed character by character as the code does.      *)
(* Python's None is modelled as the empty sequence (every place where the  *)
(* code tests an Optional[str] tests its truthiness).                      *)
(***************************************************************************)
EXTENDS Integers, Sequences, FiniteSets, TLC

\* ------------------------------------------------------------------------
\* Characters and strings
\* ------------------------------------------------------------------------

\* The printable ASCII characters in code point order (32 .. 126); the three
\* characters that cannot be written in a TLA+ string are named.
Ascii ==
  <<
     " ", "!", "QUOTE", "#", "$", "%", "&", "'", "(", ")", "*", "+", ",", "-", ".", "/",
     "0", "1", "2", "3", "4", "5", "6", "7", "8", "9", ":", ";", "<", "=", ">", "?",
     "@", "A", "B", "C", "D", "E", "F", "G", "H", "I", "J", "K", "L", "M", "N", "O",
     "P", "Q", "R", "S", "T", "U", "V", "W", "X", "Y", "Z", "[", "BACKSLASH", "]", "^", "_",
     "BACKTICK", "a", "b", "c", "d", "e", "f", "g", "h", "i", "j", "k", "l", "m", "n", "o",
     "p", "q", "r", "s", "t", "u", "v", "w", "x", "y", "z", "{", "|", "}", "~"
  >>

\* ord(c) - 31 for a printable ASCII character.
Ord(c) == CHOOSE i \in 1..Len(Ascii) : Ascii[i] = c

Digits == {Ascii[i] : i \in 17..26}

UpperCase == {Ascii[i] : i \in 34..59}

LowerCase == {Ascii[i] : i \in 66..91}

\* [a-zA-Z0-9]
AlNum == Digits \cup UpperCase \cup LowerCase

\* [a-zA-Z0-9_-]
FlagChar == AlNum \cup {"_", "-"}

\* The ASCII characters str.strip() removes: space, tab, line feed, carriage
\* return, form feed, vertical tab (0x0b) and the separators 0x1c to 0x1f,
\* the last five written as the characters themselves.
Whitespace == {" ", "\t", "\n", "\r", "\f", "", "", "", "", ""}

None == <<>>

\* str.lower() on one character.
LowerChar(c) == IF c \in UpperCase THEN Ascii[Ord(c) + 32] ELSE c

\* str.lower()
Lower(s) == [i \in 1..Len(s) |-> LowerChar(s[i])]

\* Python's `sub in s` on strings.
Contains(sub, s) ==
  \E i \in 1..(Len(s) - Len(sub) + 1) : SubSeq(s, i, i + Len(sub) - 1) = sub

\* Python's `a < b` on strings (lexicographic on code points).
StrLess(a, b) ==
  \E k \in 1..(Len(b)) :
     /\ k <= Len(a) + 1
     /\ \A j \in 1..(k - 1) : a[j] = b[j]
     /\ \/ k = Len(a) + 1
        \/ (k <= Len(a) /\ Ord(a[k]) < Ord(b[k]))

RECURSIVE SortedSeq(_)
\* sorted(S) for a set of strings.
SortedSeq(S) ==
  IF S = {} THEN <<>>
  ELSE LET m == CHOOSE x \in S : \A y \in S \ {x} : StrLess(x, y)
       IN  <<m>> \o SortedSeq(S \ {m})

Range(s) == {s[i] : i \in 1..Len(s)}

RECURSIVE Join(_)
\* " ".join(cmd)
Join(cmd) ==
  IF Len(cmd) = 0 THEN <<>>
  ELSE IF Len(cmd) = 1 THEN cmd[1]
  ELSE cmd[1] \o <<" ">> \o Join(Tail(cmd))

\* ------------------------------------------------------------------------
\* Flag Extractor
\* ------------------------------------------------------------------------

\* Index of the last character of the greedy run [a-zA-Z0-9_-]* that
\* starts at position i (i - 1 when the run is empty).
RECURSIVE FlagRunEnd(_, _)
FlagRunEnd(text, i) ==
  IF i <= Len(text) /\ text[i] \in FlagChar THEN FlagRunEnd(text, i + 1) ELSE i - 1

\* The pattern --[a-zA-Z0-9][a-zA-Z0-9_-]* matches at position i.
FlagMatchesAt(text, i) ==
  /\ i + 2 <= Len(text)
  /\ text[i] = "-"
  /\ text[i + 1] = "-"
  /\ text[i + 2] \in AlNum

RECURSIVE FindAllFlags(_, _)
\* re.findall(r"(--[a-zA-Z0-9][a-zA-Z0-9_-]*)", text), scanning from i:
\* leftmost, greedy, non-overlapping matches in text order.
FindAllFlags(text, i) ==
  IF i > Len(text) THEN <<>>
  ELSE IF FlagMatchesAt(text, i)
       THEN LET e == FlagRunEnd(text, i + 3)
            IN  <<SubSeq(text, i, e)>> \o FindAllFlags(text, e + 1)
       ELSE FindAllFlags(text, i + 1)

extract_long_flags(help_text) == SortedSeq(Range(FindAllFlags(help_text, 1)))

\* Index of the first "}" at or after position i (Len + 1 when none).
RECURSIVE NextClose(_, _)
NextClose(text, i) ==
  IF i > Len(text) \/ text[i] = "}" THEN i ELSE NextClose(text, i + 1)

RECURSIVE BraceGroup(_, _)
\* re.search(r"\{([^}]+)\}", text).group(1), scanning from i; None when the
\* pattern matches nowhere.
BraceGroup(text, i) ==
  IF i > Len(text) THEN None
  ELSE IF text[i] = "{"
       THEN LET c == NextClose(text, i + 1)
            IN  IF c <= Len(text) /\ c > i + 1
                THEN SubSeq(text, i + 1, c - 1)
                ELSE BraceGroup(text, i + 1)
       ELSE BraceGroup(text, i + 1)

RECURSIVE Split(_, _)
\* raw.split(sep) for a one-character separator.
Split(raw, sep) ==
  IF \A i \in 1..Len(raw) : raw[i] # sep THEN <<raw>>
  ELSE LET k == CHOOSE i \in 1..Len(raw) :
                   raw[i] = sep /\ \A j \in 1..(i - 1) : raw[j] # sep
       IN  <<SubSeq(raw, 1, k - 1)>> \o Split(SubSeq(raw, k + 1, Len(raw)), sep)

\* p.strip()
Strip(p) ==
  IF \A i \in 1..Len(p) : p[i] \in Whitespace THEN <<>>
  ELSE LET a == CHOOSE i \in 1..Len(p) :
                   p[i] \notin Whitespace /\ \A j \in 1..(i - 1) : p[j] \in Whitespace
           b == CHOOSE i \in 1..Len(p) :
                   p[i] \notin Whitespace /\ \A j \in (i + 1)..Len(p) : p[j] \in Whitespace
       IN  SubSeq(p, a, b)

detect_subcommands(help_text) ==
  LET raw == BraceGroup(help_text, 1)
  IN  IF raw = None THEN <<>>
      ELSE LET parts == Split(raw, ",")
               stripped == [i \in 1..Len(parts) |-> Strip(parts[i])]
           IN  SelectSeq(stripped, LAMBDA p : p # <<>>)

\* ------------------------------------------------------------------------
\* pathlib
\* ------------------------------------------------------------------------

\* The components pathlib keeps of the path text p: the empty ones and "."
\* are dropped.
PathComponents(p) ==
  LET n == Len(p)
      cuts == {0, n + 1} \cup {i \in 1..n : p[i] = "/"}
      \* the cuts a non-empty component follows, in order
      starts == SelectSeq([i \in 1..(n + 1) |-> i - 1],
                          LAMBDA s : s \in cuts /\ s + 1 \notin cuts)
      NextCut(s) == CHOOSE t \in cuts : t > s /\ \A u \in cuts : u > s => t <= u
      comps == [k \in 1..Len(starts) |->
                  SubSeq(p, starts[k] + 1, NextCut(starts[k]) - 1)]
  IN  SelectSeq(comps, LAMBDA c : c # <<".">>)

\* Path(p).root: "/" for an absolute path, "//" when p starts with exactly
\* two slashes, "" for a relative path.
PathRoot(p) ==
  IF p = <<>> \/ p[1] # "/" THEN <<>>
  ELSE IF Len(p) >= 2 /\ p[2] = "/" /\ (Len(p) = 2 \/ p[3] # "/")
       THEN <<"/", "/">>
       ELSE <<"/">>

RECURSIVE JoinComponents(_)
\* "/".join(comps)
JoinComponents(comps) ==
  IF Len(comps) = 0 THEN <<>>
  ELSE IF Len(comps) = 1 THEN comps[1]
  ELSE comps[1] \o <<"/">> \o JoinComponents(Tail(comps))

\* str() of the path with the given root and components.
PathStr(root, comps) ==
  IF comps = <<>> THEN (IF root = <<>> THEN <<".">> ELSE root)
  ELSE root \o JoinComponents(comps)

\* Path(p).parts: the root, if any, then the components.
Parts(p) ==
  (IF PathRoot(p) = <<>> THEN <<>> ELSE <<PathRoot(p)>>) \o PathComponents(p)

\* str(Path(p) / name): an absolute name replaces p.
PathJoin(p, name) ==
  IF PathRoot(name) # <<>>
  THEN PathStr(PathRoot(name), PathComponents(name))
  ELSE PathStr(PathRoot(p), PathComponents(p) \o PathComponents(name))

\* ------------------------------------------------------------------------
\* Attempt Planner
\* ------------------------------------------------------------------------

\* sys.executable
sys_executable == <<"p", "y", "t", "h", "o", "n">>

InputKeywords == << <<"i", "n", "p", "u", "t">>, <<"c", "s", "v">>, <<"p", "a", "t", "h">>, <<"f", "i", "l", "e">> >>

OutputKeywords == << <<"o", "u", "t">>, <<"o", "u", "t", "p", "u", "t">>, <<"r", "e", "p", "o", "r", "t">>, <<"r", "e", "s", "u", "l", "t">> >>

\* The inner loop of pick_best_flag: the number of keywords contained in low.
Score(low, keywords) == Cardinality({i \in 1..Len(keywords) : Contains(keywords[i], low)})

RECURSIVE PickLoop_lastWins(_, _, _, _, _)
\* Mutant of PickLoop: a later flag with an equal score replaces the best.
PickLoop_lastWins(flags, keywords, i, best, best_score) ==
  IF i > Len(flags) THEN (IF best_score > 0 THEN best ELSE None)
  ELSE LET score == Score(Lower(flags[i]), keywords)
       IN  IF score >= best_score
           THEN PickLoop_lastWins(flags, keywords, i + 1, flags[i], score)
           ELSE PickLoop_lastWins(flags, keywords, i + 1, best, best_score)

RECURSIVE PickLoop(_, _, _, _, _)
\* The outer loop of pick_best_flag from position i with the running
\* (best, best_score).
PickLoop(flags, keywords, i, best, best_score) ==
  IF i > Len(flags) THEN (IF best_score > 0 THEN best ELSE None)
  ELSE LET score == Score(Lower(flags[i]), keywords)
       IN  IF score > best_score
           THEN PickLoop(flags, keywords, i + 1, flags[i], score)
           ELSE PickLoop(flags, keywords, i + 1, best, best_score)

pick_best_flag(flags, keywords) == PickLoop(flags, keywords, 1, None, -1)

\* Mutant of out_expects_file: every output flag is taken to expect a file.
out_expects_file_always(out_flag) == TRUE

\* Mutant of out_expects_file: only "dir" marks a directory-expecting flag.
out_expects_file_dirOnly(out_flag) == ~Contains(<<"d", "i", "r">>, Lower(out_flag))

out_expects_file(out_flag) ==
  LET low == Lower(out_flag)
  IN  ~(Contains(<<"d", "i", "r">>, low) \/ Contains(<<"f", "o", "l", "d", "e", "r">>, low))

\* The fixed filename targeted for a file-expecting output flag.
OutFileName == <<"s", "o", "s", "t", "_", "o", "u", "t", ".", "j", "s", "o", "n">>

subcmds_to_try(subs) ==
  IF subs # <<>>
  THEN IF <<"r", "u", "n">> \in Range(subs) THEN << <<"r", "u", "n">>, None >> ELSE << subs[1], None >>
  ELSE << None >>

\* build_attempts.mk_cmd; the closure variables script_path, csv_path,
\* out_band_dir, input_flag and out_flag are passed explicitly.
mk_cmd(script_path, csv_path, out_band_dir, input_flag, out_flag, subcmd, use_input_flag, use_out) ==
  LET c0 == <<sys_executable, script_path>>
      c1 == IF subcmd # None THEN Append(c0, subcmd) ELSE c0
      c2 == IF use_input_flag /\ input_flag # None
            THEN c1 \o <<input_flag, csv_path>>
            ELSE Append(c1, csv_path)
  IN  IF use_out /\ out_flag # None
      THEN IF out_expects_file(out_flag)
           THEN c2 \o <<out_flag, PathJoin(out_band_dir, OutFileName)>>
           ELSE c2 \o <<out_flag, out_band_dir>>
      ELSE c2

\* Mutant of HeuristicFor: the two attempts that use the input flag are
\* appended whether or not an input flag was identified.
HeuristicFor_alwaysFour(script_path, csv_path, out_band_dir, input_flag, out_flag, subcmd) ==
  << mk_cmd(script_path, csv_path, out_band_dir, input_flag, out_flag, subcmd, TRUE, TRUE),
     mk_cmd(script_path, csv_path, out_band_dir, input_flag, out_flag, subcmd, TRUE, FALSE),
     mk_cmd(script_path, csv_path, out_band_dir, input_flag, out_flag, subcmd, FALSE, TRUE),
     mk_cmd(script_path, csv_path, out_band_dir, input_flag, out_flag, subcmd, FALSE, FALSE) >>

\* The attempts the "intelligent" loop appends for one subcommand candidate.
HeuristicFor(script_path, csv_path, out_band_dir, input_flag, out_flag, subcmd) ==
  (IF input_flag # None
   THEN << mk_cmd(script_path, csv_path, out_band_dir, input_flag, out_flag, subcmd, TRUE, TRUE),
           mk_cmd(script_path, csv_path, out_band_dir, input_flag, out_flag, subcmd, TRUE, FALSE) >>
   ELSE <<>>)
  \o << mk_cmd(script_path, csv_path, out_band_dir, input_flag, out_flag, subcmd, FALSE, TRUE),
        mk_cmd(script_path, csv_path, out_band_dir, input_flag, out_flag, subcmd, FALSE, FALSE) >>

hard_inputs(csv_path) ==
  << << <<"-", "-", "i", "n", "p", "u", "t">>, csv_path >>,
     << <<"-", "-", "i", "n", "p", "u", "t", "-", "c", "s", "v">>, csv_path >>,
     << <<"-", "-", "i", "n", "p", "u", "t", "_", "c", "s", "v">>, csv_path >>,
     << <<"-", "-", "c", "s", "v">>, csv_path >>,
     << <<"-", "-", "c", "s", "v", "-", "p", "a", "t", "h">>, csv_path >>,
     << <<"-", "-", "c", "s", "v", "_", "p", "a", "t", "h">>, csv_path >>,
     << <<"-", "-", "p", "a", "t", "h">>, csv_path >>,
     << <<"-", "-", "f", "i", "l", "e">>, csv_path >> >>

hard_outs(out_band_dir) ==
  << << <<"-", "-", "o", "u", "t", "d", "i", "r">>, out_band_dir >>,
     << <<"-", "-", "o", "u", "t", "-", "d", "i", "r">>, out_band_dir >>,
     << <<"-", "-", "o", "u", "t", "_", "d", "i", "r">>, out_band_dir >>,
     << <<"-", "-", "o", "u", "t", "p", "u", "t", "-", "d", "i", "r">>, out_band_dir >>,
     << <<"-", "-", "o", "u", "t", "p", "u", "t", "_", "d", "i", "r">>, out_band_dir >>,
     << <<"-", "-", "o", "u", "t">>, PathJoin(out_band_dir, OutFileName) >>,
     << <<"-", "-", "o", "u", "t", "p", "u", "t">>, PathJoin(out_band_dir, OutFileName) >> >>

\* Concatenation of a sequence of sequences.
RECURSIVE Flatten(_)
Flatten(ss) == IF ss = <<>> THEN <<>> ELSE Head(ss) \o Flatten(Tail(ss))

\* Mutant of FallbackFor: the variants that pass only an input flag are
\* left out.
FallbackFor_noInputOnly(script_path, csv_path, out_band_dir, subcmd) ==
  LET base == <<sys_executable, script_path>> \o (IF subcmd # None THEN <<subcmd>> ELSE <<>>)
      his == hard_inputs(csv_path)
      hos == hard_outs(out_band_dir)
      PerInput(hi) == [j \in 1..Len(hos) |-> base \o hi \o hos[j]]
  IN  Flatten([i \in 1..Len(his) |-> PerInput(his[i])])
      \o [j \in 1..Len(hos) |-> base \o <<csv_path>> \o hos[j]]
      \o <<base \o <<csv_path>>>>

\* The attempts the fallback loop appends for one subcommand candidate.
FallbackFor(script_path, csv_path, out_band_dir, subcmd) ==
  LET base == <<sys_executable, script_path>> \o (IF subcmd # None THEN <<subcmd>> ELSE <<>>)
      his == hard_inputs(csv_path)
      hos == hard_outs(out_band_dir)
      PerInput(hi) == [j \in 1..Len(hos) |-> base \o hi \o hos[j]] \o <<base \o hi>>
  IN  Flatten([i \in 1..Len(his) |-> PerInput(his[i])])
      \o [j \in 1..Len(hos) |-> base \o <<csv_path>> \o hos[j]]
      \o <<base \o <<csv_path>>>>

\* Mutant of Dedupe: nothing is removed.
Dedupe_keepAll(attempts_) == attempts_

\* Mutant of Dedupe: of equal attempts the last one is kept.
Dedupe_keepLast(attempts_) ==
  LET positions == [i \in 1..Len(attempts_) |-> i]
      last == SelectSeq(positions,
                LAMBDA i : \A j \in (i + 1)..Len(attempts_) : attempts_[j] # attempts_[i])
  IN  [k \in 1..Len(last) |-> attempts_[last[k]]]

\* The deduplication loop: position i is appended to uniq exactly when its
\* token tuple is not yet in seen, that is, when no earlier position of
\* attempts holds an equal attempt; uniq keeps the order of the loop.
Dedupe(attempts_) ==
  LET positions == [i \in 1..Len(attempts_) |-> i]
      first == SelectSeq(positions,
                 LAMBDA i : \A j \in 1..(i - 1) : attempts_[j] # attempts_[i])
  IN  [k \in 1..Len(first) |-> attempts_[first[k]]]

\* What the "intelligent" loop appends to `attempts`, over every subcommand
\* candidate.
HeuristicAttempts(script_path, csv_path, out_band_dir, help_text) ==
  LET flags == extract_long_flags(help_text)
      input_flag == pick_best_flag(flags, InputKeywords)
      out_flag == pick_best_flag(flags, OutputKeywords)
      cands == subcmds_to_try(detect_subcommands(help_text))
  IN  Flatten([i \in 1..Len(cands) |->
                 HeuristicFor(script_path, csv_path, out_band_dir, input_flag, out_flag, cands[i])])

\* What the fallback loop appends to `attempts`, over every subcommand
\* candidate.
FallbackAttempts(script_path, csv_path, out_band_dir, help_text) ==
  LET cands == subcmds_to_try(detect_subcommands(help_text))
  IN  Flatten([i \in 1..Len(cands) |->
                 FallbackFor(script_path, csv_path, out_band_dir, cands[i])])

\* The list `attempts` of build_attempts right before deduplication.
RawAttempts(script_path, csv_path, out_band_dir, help_text) ==
  HeuristicAttempts(script_path, csv_path, out_band_dir, help_text)
  \o FallbackAttempts(script_path, csv_path, out_band_dir, help_text)

build_attempts(script_path, csv_path, out_band_dir, help_text) ==
  Dedupe(RawAttempts(script_path, csv_path, out_band_dir, help_text))

\* ------------------------------------------------------------------------
\* Paths and dataset discovery
\* ------------------------------------------------------------------------

\* Path(p).name: the last component, "" when there is none.
Name(p) == LET cs == PathComponents(p) IN IF cs = <<>> THEN <<>> ELSE cs[Len(cs)]

\* Path(p).stem: the final component without its last suffix.
Stem(p) ==
  LET name == Name(p)
      dots == {i \in 2..Len(name) : name[i] = "."}
  IN  IF dots = {} \/ name[Len(name)] = "." THEN name
      ELSE SubSeq(name, 1, (CHOOSE i \in dots : \A j \in dots : j <= i) - 1)

\* Python's `a < b` on lists of strings.
PartsLess(a, b) ==
  \E k \in 1..Len(b) :
     /\ k <= Len(a) + 1
     /\ \A j \in 1..(k - 1) : a[j] = b[j]
     /\ \/ k = Len(a) + 1
        \/ (k <= Len(a) /\ StrLess(a[k], b[k]))

\* Path.__lt__: paths compare by their parts.
PathLess(a, b) == PartsLess(Parts(a), Parts(b))

RECURSIVE SortedPaths(_)
\* sorted(S) for a set of paths.
SortedPaths(S) ==
  IF S = {} THEN <<>>
  ELSE LET m == CHOOSE x \in S : \A y \in S \ {x} : PathLess(x, y)
       IN  <<m>> \o SortedPaths(S \ {m})

\* Path(".").resolve()
repo_root == <<"/", "r">>

\* Path(args.outdir).resolve() with the default --outdir.
out_root == <<"/", "r", "/", "_", "c", "i", "_", "o", "u", "t", "/", "b", "a", "n", "d", "s">>

\* out_root.parent
ci_root == <<"/", "r", "/", "_", "c", "i", "_", "o", "u", "t">>

\* discover_band_csvs on a file system given by the band_*.csv files that
\* lie directly in test_data and those that lie anywhere under the
\* repository root (the second set includes the first).
discover_band_csvs(direct, anywhere) ==
  IF direct # {} THEN SortedPaths(direct) ELSE SortedPaths(anywhere)

\* candidates of find_run_sost
run_sost_candidates ==
  << PathJoin(PathJoin(repo_root, <<"s", "c", "r", "i", "p", "t", "s">>), <<"r", "u", "n", "_", "s", "o", "s", "t", ".", "p", "y">>),
     PathJoin(repo_root, <<"r", "u", "n", "_", "s", "o", "s", "t", ".", "p", "y">>) >>

\* find_run_sost on a file system given by the set of existing files: the
\* first existing candidate, None standing for the raised FileNotFoundError.
find_run_sost(existing) ==
  IF run_sost_candidates[1] \in existing THEN run_sost_candidates[1]
  ELSE IF run_sost_candidates[2] \in existing THEN run_sost_candidates[2]
  ELSE None

\* ------------------------------------------------------------------------
\* Bounds and inputs
\* ------------------------------------------------------------------------

\* Number of band files a file system holds in one place.
MaxBands == 2

\* The target tool gives an exit code other than 2, or output that run_cmd
\* cannot decode, only to one of the first MaxFinalPos attempts made for a
\* dataset; it rejects every later one with exit code 2.
MaxFinalPos == 2

DigitChar(n) == Ascii[17 + n]

\* band_<k>.csv directly in test_data
DirectBand(k) ==
  PathJoin(PathJoin(repo_root, <<"t", "e", "s", "t", "_", "d", "a", "t", "a">>), <<"b", "a", "n", "d", "_">> \o <<DigitChar(k)>> \o <<".", "c", "s", "v">>)

\* band_<k>.csv in a directory of its own, named so that the path order of
\* the files is the reverse of the order of their numbers
ElsewhereBand(k) ==
  PathJoin(PathJoin(repo_root, <<"x">> \o <<DigitChar(9 - k)>>), <<"b", "a", "n", "d", "_">> \o <<DigitChar(k)>> \o <<".", "c", "s", "v">>)

\* The file systems discovery runs on.
FileSystems ==
  {[direct |-> {DirectBand(k) : k \in 1..n},
    anywhere |-> {DirectBand(k) : k \in 1..n} \cup {ElsewhereBand(k) : k \in 1..m}]
     : n \in 0..MaxBands, m \in 0..MaxBands}

\* The sets of existing tool scripts.
ToolLayouts == SUBSET Range(run_sost_candidates)

H_scenario == <<"u", "s", "a", "g", "e", ":", " ", "t", "o", "o", "l", " ", "{", "r", "u", "n", ",", "c", "h", "e", "c", "k", "}", " ", "-", "-", "i", "n", "p", "u", "t", "-", "c", "s", "v", " ", "P", "A", "T", "H", " ", "-", "-", "o", "u", "t", "d", "i", "r", " ", "D", "I", "R">>

H_empty == <<>>

H_noflags == <<"u", "s", "a", "g", "e", ":", " ", "t", "o", "o", "l", " ", "F", "I", "L", "E">>

H_dashes == <<"u", "s", "a", "g", "e", ":", " ", "t", " ", "{", "c", "h", "e", "c", "k", ",", "r", "u", "n", "}", " ", "-", "-", "-", "x", " ", "a", "-", "-", "b", " ", "-", "-", "o", "u", "t", "p", "u", "t", "-", "f", "i", "l", "e", " ", "F">>

H_upper == <<"x", " ", "{", "}", " ", "{", " ", "g", "o", " ", ",", " ", ",", "b", "}", " ", "-", "-", "O", "u", "t", "_", "F", "o", "l", "d", "e", "r", " ", "D", " ", "-", "-", "C", "S", "V", " ", "P">>

H_report == <<"-", "-", "c", "s", "v", "-", "p", "a", "t", "h", " ", "P", " ", "-", "-", "r", "e", "p", "o", "r", "t", " ", "R">>

H_ties == <<"-", "-", "p", "a", "t", "h", "-", "b", " ", "X", " ", "-", "-", "f", "i", "l", "e", "-", "a", " ", "Y", " ", "-", "-", "o", "u", "t", " ", "O", " ", "-", "-", "r", "e", "s", "u", "l", "t", " ", "Q">>

\* The help texts the Help Introspector may capture.
HelpTexts == {H_scenario, H_empty, H_noflags, H_dashes, H_upper, H_report, H_ties}

\* The help texts of the full runs: one that names an input and an output
\* flag, so that the plan starts with heuristic attempts, and the empty one,
\* whose plan is the fallback attempts alone.
RunHelpTexts == {H_report, H_empty}

\* What a child process may answer: its exit code and its merged output.
ToolReplies ==
  { [rc |-> 0, out |-> "ok"], [rc |-> 1, out |-> "error"], [rc |-> 2, out |-> "usage"] }

\* final_rc = None.  final_rc is <<>> or <<rc>>, so that no exit code of a
\* child process (subprocess reports -1 for one killed by signal 1) is taken
\* for None.
NoRc == <<>>

\* main has not returned
Running == -1

\* ------------------------------------------------------------------------
\* State
\* ------------------------------------------------------------------------

VARIABLES
  pc,           \* position in main (or in the planner pipeline)
  run_sost,     \* the located tool script, None before it is located
  help_text,    \* the captured help text
  csvs,         \* the discovered datasets, in discovery order
  bi,           \* number of datasets taken from csvs by the outer loop
  csv_path,     \* the current dataset
  out_band_dir, \* the current dataset's output directory
  log_path,     \* the current dataset's log file
  flags,        \* build_attempts: the extracted flags
  subs,         \* build_attempts: the extracted subcommands
  input_flag,   \* build_attempts: the chosen input flag or None
  out_flag,     \* build_attempts: the chosen output flag or None
  attempts,     \* the current dataset's plan
  ai,           \* number of attempts taken from the plan by the inner loop
  final_rc,     \* NoRc or <<the exit code that ended the search>>
  final_cmd,    \* None or the attempt that ended the search
  results,      \* the BandResults so far
  ok_count,     \* number of successful datasets so far
  logs,         \* the per-dataset log files: path -> records of the file
  files,        \* the artifacts under ci_root: name -> <<>> or <<content>>
  runs,         \* the child processes whose exit code run_cmd returned
  exit_code     \* Running or the value main returned

vars ==
  << pc, run_sost, help_text, csvs, bi, csv_path, out_band_dir, log_path,
     flags, subs,
     input_flag, out_flag, attempts, ai, final_rc, final_cmd, results,
     ok_count, logs, files, runs, exit_code >>

planner_vars == << flags, subs, input_flag, out_flag, attempts >>

loop_vars == << bi, csv_path, out_band_dir, log_path, ai, final_rc, final_cmd >>

NoFiles == [help |-> <<>>, discovered |-> <<>>, summary |-> <<>>, exception |-> <<>>]

Init ==
  /\ pc = "find_tool"
  /\ run_sost = None
  /\ help_text = <<>>
  /\ csvs = <<>>
  /\ bi = 0
  /\ csv_path = None
  /\ out_band_dir = None
  /\ log_path = None
  /\ flags = <<>>
  /\ subs = <<>>
  /\ input_flag = None
  /\ out_flag = None
  /\ attempts = <<>>
  /\ ai = 0
  /\ final_rc = NoRc
  /\ final_cmd = None
  /\ results = <<>>
  /\ ok_count = 0
  /\ logs = <<>>
  /\ files = NoFiles
  /\ runs = <<>>
  /\ exit_code = Running

\* ------------------------------------------------------------------------
\* Execution Driver
\* ------------------------------------------------------------------------

\* The record run_cmd writes for one child process.
LogRecord(cmd, reply) == [cmd |-> Join(cmd), out |-> reply.out, rc |-> <<reply.rc>>]

\* run_cmd's effect on the log file at path p holding old (<<>> when the file
\* does not exist): the file is opened in mode "w", so it is truncated, and
\* the record of this child process is written.
run_cmd_log(old, cmd, reply) == <<LogRecord(cmd, reply)>>

\* The file system fs (a function from paths to contents) with p set to c.
WriteFile(fs, p, c) == [q \in DOMAIN fs \cup {p} |-> IF q = p THEN c ELSE fs[q]]

ReadFile(fs, p) == IF p \in DOMAIN fs THEN fs[p] ELSE <<>>

\* Exit code 2 is the usage-error signal that continues the search.
UsageError == 2

\* ------------------------------------------------------------------------
\* main
\* ------------------------------------------------------------------------

\* find_run_sost raises: control passes to the except clause.
FindToolFails ==
  /\ pc = "find_tool"
  /\ \E existing \in ToolLayouts :
        /\ find_run_sost(existing) = None
        /\ pc' = "except"
  /\ UNCHANGED << run_sost, help_text, csvs, results, ok_count, logs, files,
                  runs, exit_code, planner_vars, loop_vars >>

\* find_run_sost returns, get_help captures the help text and it is saved.
FindToolAndHelp ==
  /\ pc = "find_tool"
  /\ \E existing \in ToolLayouts, h \in RunHelpTexts :
        /\ find_run_sost(existing) # None
        /\ run_sost' = find_run_sost(existing)
        /\ help_text' = h
        /\ files' = [files EXCEPT !.help = <<h>>]
  /\ pc' = "discover"
  /\ UNCHANGED << csvs, results, ok_count, logs, runs, exit_code,
                  planner_vars, loop_vars >>

\* find_run_sost returns and get_help raises: the output of the tool's
\* --help run is not valid UTF-8, which subprocess.run(text=True) rejects
\* with UnicodeDecodeError.  run_sost is bound, no help file is written and
\* control passes to the except clause.
GetHelpRaises ==
  /\ pc = "find_tool"
  /\ \E existing \in ToolLayouts :
        /\ find_run_sost(existing) # None
        /\ run_sost' = find_run_sost(existing)
  /\ pc' = "except"
  /\ UNCHANGED << help_text, csvs, results, ok_count, logs, files, runs,
                  exit_code, planner_vars, loop_vars >>

\* The value main returns when no dataset was discovered.
DiscoveryExit == 2

\* The summary written when no dataset was discovered.
EmptySummary == [total |-> 0, ok |-> 0, fail |-> 0, note |-> "no band csv found"]

\* Mutant of Discover: the `if not csvs` branch is missing, so an empty
\* discovery falls through to the dataset loop.
Discover_noEarlyReturn ==
  /\ pc = "discover"
  /\ \E fs \in FileSystems :
        LET found == discover_band_csvs(fs.direct, fs.anywhere)
        IN  /\ csvs' = found
            /\ files' = [files EXCEPT !.discovered = <<found>>]
  /\ pc' = "next_band"
  /\ results' = <<>>
  /\ ok_count' = 0
  /\ UNCHANGED << run_sost, help_text, logs, runs, exit_code, planner_vars, loop_vars >>

\* discover_band_csvs and the `if not csvs` branch.  In that branch the
\* summary is written and then a message with a non-ASCII character is
\* printed, inside the try block: on a standard output that cannot encode
\* it print raises (print_raises) and control passes to the except clause
\* with the summary on disk.
Discover ==
  /\ pc = "discover"
  /\ \E fs \in FileSystems :
        LET found == discover_band_csvs(fs.direct, fs.anywhere)
        IN  /\ csvs' = found
            /\ IF found = <<>>
               THEN /\ files' = [files EXCEPT !.discovered = <<found>>,
                                              !.summary = <<EmptySummary>>]
                    /\ \E print_raises \in BOOLEAN :
                          IF print_raises
                          THEN /\ exit_code' = exit_code
                               /\ pc' = "except"
                          ELSE /\ exit_code' = DiscoveryExit
                               /\ pc' = "done"
                    /\ UNCHANGED << results, ok_count >>
               ELSE /\ files' = [files EXCEPT !.discovered = <<found>>]
                    /\ exit_code' = exit_code
                    /\ results' = <<>>
                    /\ ok_count' = 0
                    /\ pc' = "next_band"
  /\ UNCHANGED << run_sost, help_text, logs, runs, planner_vars, loop_vars >>

\* discover_band_csvs returns a non-empty list and writing the list of
\* discovered paths raises: a file name is not valid UTF-8, so write_text
\* raises UnicodeEncodeError and leaves discovered_bands.txt empty.  csvs is
\* bound, no dataset is processed and control passes to the except clause.
DiscoverRaises ==
  /\ pc = "discover"
  /\ \E fs \in FileSystems :
        LET found == discover_band_csvs(fs.direct, fs.anywhere)
        IN  /\ found # <<>>
            /\ csvs' = found
  /\ files' = [files EXCEPT !.discovered = << <<>> >>]
  /\ pc' = "except"
  /\ UNCHANGED << run_sost, help_text, results, ok_count, logs, runs,
                  exit_code, planner_vars, loop_vars >>

\* Mutant of NextBand: final_rc and final_cmd are not reset, so a dataset
\* whose plan is exhausted inherits the outcome of the dataset before it.
NextBand_staleFinal ==
  /\ pc = "next_band"
  /\ bi < Len(csvs)
  /\ bi' = bi + 1
  /\ LET csv == csvs[bi + 1]
         dir == PathJoin(out_root, Stem(csv))
         found == extract_long_flags(help_text)
         plan == build_attempts(run_sost, csv, dir, help_text)
     IN  /\ csv_path' = csv
         /\ out_band_dir' = dir
         /\ log_path' = PathJoin(dir, <<"r", "u", "n", ".", "l", "o", "g">>)
         /\ flags' = found
         /\ subs' = detect_subcommands(help_text)
         /\ input_flag' = pick_best_flag(found, InputKeywords)
         /\ out_flag' = pick_best_flag(found, OutputKeywords)
         /\ attempts' = plan
         /\ pc' = IF plan = <<>> THEN "record" ELSE "attempt"
  /\ ai' = 0
  /\ UNCHANGED << run_sost, help_text, csvs, results, ok_count, logs, files,
                  runs, exit_code, final_rc, final_cmd >>

\* The head of the outer loop takes the next dataset and plans its attempts.
NextBand ==
  /\ pc = "next_band"
  /\ bi < Len(csvs)
  /\ bi' = bi + 1
  /\ LET csv == csvs[bi + 1]
         dir == PathJoin(out_root, Stem(csv))
         found == extract_long_flags(help_text)
         plan == build_attempts(run_sost, csv, dir, help_text)
     IN  /\ csv_path' = csv
         /\ out_band_dir' = dir
         /\ log_path' = PathJoin(dir, <<"r", "u", "n", ".", "l", "o", "g">>)
         /\ flags' = found
         /\ subs' = detect_subcommands(help_text)
         /\ input_flag' = pick_best_flag(found, InputKeywords)
         /\ out_flag' = pick_best_flag(found, OutputKeywords)
         /\ attempts' = plan
         /\ pc' = IF plan = <<>> THEN "record" ELSE "attempt"
  /\ ai' = 0
  /\ final_rc' = NoRc
  /\ final_cmd' = None
  /\ UNCHANGED << run_sost, help_text, csvs, results, ok_count, logs, files,
                  runs, exit_code >>

\* Mutant of Classify: only exit code 0 ends the search.
Classify_onlyZeroStops(rc, cmd, old_rc, old_cmd) ==
  IF rc # 0 THEN <<old_rc, old_cmd, FALSE>> ELSE << <<rc>>, cmd, TRUE >>

\* Mutant of Classify: the `continue` is missing, every exit code ends the
\* search.
Classify_alwaysStops(rc, cmd, old_rc, old_cmd) == << <<rc>>, cmd, TRUE >>

\* What the inner loop does with the exit code rc of the attempt cmd:
\* <<final_rc, final_cmd, break>>.
Classify(rc, cmd, old_rc, old_cmd) ==
  IF rc = UsageError THEN <<old_rc, old_cmd, FALSE>> ELSE << <<rc>>, cmd, TRUE >>

\* The log when run_cmd has written the command line only: no output and no
\* EXIT_CODE line.
LogHeader(cmd) == [cmd |-> Join(cmd), out |-> "", rc |-> NoRc]

\* run_cmd up to the start of the child process: the log file is opened in
\* mode "w", which truncates it, and the command line is written through
\* the file's buffer.  While the child process runs the file is empty when
\* the command line fits in the buffer, and holds the command line (on_disk)
\* when it is longer than the buffer.  The length of a command line is that
\* of the paths in it, which the strings of this model do not carry, so both
\* outcomes are possible at every attempt.
RunCmdOpens ==
  /\ pc = "attempt"
  /\ ai < Len(attempts)
  /\ \E on_disk \in BOOLEAN :
        logs' = WriteFile(logs, log_path,
                          IF on_disk THEN <<LogHeader(attempts[ai + 1])>>
                          ELSE <<>>)
  /\ pc' = "run_cmd"
  /\ UNCHANGED << run_sost, help_text, csvs, bi, csv_path, out_band_dir,
                  log_path, ai, final_rc, final_cmd, results, ok_count,
                  files, runs, exit_code, planner_vars >>

\* The rest of one iteration of the inner loop: the child process answers
\* with one of replies, run_cmd writes the record and returns the exit code,
\* which is classified.
RunAttemptFrom(replies) ==
  /\ pc = "run_cmd"
  /\ ai < Len(attempts)
  /\ \E reply \in replies :
        /\ reply.rc # UsageError => ai < MaxFinalPos
        /\ LET cmd == attempts[ai + 1]
               c == Classify(reply.rc, cmd, final_rc, final_cmd)
           IN  /\ logs' = WriteFile(logs, log_path,
                                    run_cmd_log(ReadFile(logs, log_path), cmd, reply))
               /\ runs' = Append(runs, [band |-> bi, cmd |-> cmd, rc |-> reply.rc])
               /\ final_rc' = c[1]
               /\ final_cmd' = c[2]
               /\ pc' = IF c[3] \/ ai + 1 = Len(attempts) THEN "record" ELSE "attempt"
  /\ ai' = ai + 1
  /\ UNCHANGED << run_sost, help_text, csvs, bi, csv_path, out_band_dir,
                  log_path,
                  results, ok_count, files, exit_code, planner_vars >>

\* run_cmd raises while it waits for the child process: the output of the
\* child process is not valid UTF-8 (subprocess.run(text=True) raises
\* UnicodeDecodeError).  Closing the log writes the buffered command line,
\* run_cmd returns no exit code, nothing is recorded for the dataset and
\* control passes to the except clause.
RunCmdRaises ==
  /\ pc = "run_cmd"
  /\ ai < Len(attempts)
  /\ ai < MaxFinalPos
  /\ logs' = WriteFile(logs, log_path, <<LogHeader(attempts[ai + 1])>>)
  /\ pc' = "except"
  /\ UNCHANGED << run_sost, help_text, csvs, bi, csv_path, out_band_dir,
                  log_path, ai,
                  final_rc, final_cmd, results, ok_count, files, runs,
                  exit_code, planner_vars >>

\* One iteration of the inner loop against a tool that may answer anything.
RunAttempt == RunAttemptFrom(ToolReplies)

\* Mutant of Final: an exhausted plan records its first entry.
Final_firstEntry(rc, cmd, plan) ==
  IF rc = NoRc
  THEN <<2, IF plan # <<>> THEN plan[1] ELSE <<sys_executable, run_sost>>>>
  ELSE <<rc[1], cmd>>

\* The exit code and the attempt recorded for a dataset once the inner loop
\* is over.
Final(rc, cmd, plan) ==
  IF rc = NoRc
  THEN <<2, IF plan # <<>> THEN plan[Len(plan)] ELSE <<sys_executable, run_sost>>>>
  ELSE <<rc[1], cmd>>

\* Mutant of BandResult: every exit code other than 2 counts as a success.
BandResult_successNotUsage(stem, csv, rc, cmd, log) ==
  [band |-> stem, csv |-> csv, success |-> (rc # 2), exit_code |-> rc,
   cmd |-> Join(cmd), log |-> log]

BandResult(stem, csv, rc, cmd, log) ==
  [band |-> stem, csv |-> csv, success |-> (rc = 0), exit_code |-> rc,
   cmd |-> Join(cmd), log |-> log]

\* Mutant of CountOk: every exit code other than 2 counts as a success.
CountOk_notUsage(ok, rc) == IF rc # 2 THEN ok + 1 ELSE ok

\* ok_count after a dataset whose final exit code is rc.
CountOk(ok, rc) == IF rc = 0 THEN ok + 1 ELSE ok

\* After the inner loop: the final result of the dataset is appended.
RecordBand ==
  /\ pc = "record"
  /\ LET f == Final(final_rc, final_cmd, attempts)
     IN  /\ final_rc' = <<f[1]>>
         /\ final_cmd' = f[2]
         /\ ok_count' = CountOk(ok_count, f[1])
         /\ results' = Append(results,
                              BandResult(Stem(csv_path), csv_path, f[1], f[2], log_path))
  /\ pc' = "next_band"
  /\ UNCHANGED << run_sost, help_text, csvs, bi, csv_path, out_band_dir,
                  log_path, ai,
                  logs, files, runs, exit_code, planner_vars >>

Summary(res, ok) ==
  [total |-> Len(res), ok |-> ok, fail |-> Len(res) - ok,
   outdir |-> out_root, results |-> res]

\* Mutant of SuiteExit: one passing dataset is not enough.
SuiteExit_needsTwo(ok) == IF ok > 1 THEN 0 ELSE 2

\* The value main returns after the dataset loop.
SuiteExit(ok) == IF ok > 0 THEN 0 ELSE 2

\* The outer loop is over: the summary is written and main returns.
Summarize ==
  /\ pc = "next_band"
  /\ bi = Len(csvs)
  /\ files' = [files EXCEPT !.summary = <<Summary(results, ok_count)>>]
  /\ exit_code' = SuiteExit(ok_count)
  /\ pc' = "done"
  /\ UNCHANGED << run_sost, help_text, csvs, results, ok_count, logs, runs,
                  planner_vars, loop_vars >>

\* The value main returns from the except clause.
FaultExit == 2

\* The except clause: the traceback is saved and main returns.
HandleException ==
  /\ pc = "except"
  /\ files' = [files EXCEPT !.exception = <<"traceback">>]
  /\ exit_code' = FaultExit
  /\ pc' = "done"
  /\ UNCHANGED << run_sost, help_text, csvs, results, ok_count, logs, runs,
                  planner_vars, loop_vars >>

Next ==
  \/ FindToolFails
  \/ FindToolAndHelp
  \/ GetHelpRaises
  \/ Discover
  \/ DiscoverRaises
  \/ NextBand
  \/ RunCmdOpens
  \/ RunAttempt
  \/ RunCmdRaises
  \/ RecordBand
  \/ Summarize
  \/ HandleException

Spec == Init /\ [][Next]_vars

\* ------------------------------------------------------------------------
\* main against a target tool that exits 2 for every invocation
\* ------------------------------------------------------------------------

\* The answers of a tool that rejects every invocation.
UsageReplies == {r \in ToolReplies : r.rc = UsageError}

UsageNext ==
  \/ FindToolFails
  \/ FindToolAndHelp
  \/ GetHelpRaises
  \/ Discover
  \/ DiscoverRaises
  \/ NextBand
  \/ RunCmdOpens
  \/ RunAttemptFrom(UsageReplies)
  \/ RunCmdRaises
  \/ RecordBand
  \/ Summarize
  \/ HandleException

\* The band loop has a dataset left to start.  NextBand is enabled exactly in
\* these states and leaves them (it moves pc off "next_band").
NextBandEnabled == pc = "next_band" /\ bi < Len(csvs)

\* main is one sequential thread and every child process returns, so a step
\* that can be taken is eventually taken; an exception may or may not be
\* raised, so the raising steps carry no fairness.  For NextBand weak
\* fairness is written out as what it means, that the loop does not stay for ever in a
\* state where it can start the next dataset: WF_vars(NextBand) is
\* []<>~ENABLED <<NextBand>>_vars \/ []<><<NextBand>>_vars, and each
\* disjunct is []<>~NextBandEnabled.
UsageFairness ==
  /\ WF_vars(FindToolFails \/ FindToolAndHelp \/ Discover \/ RunCmdOpens
               \/ RunAttemptFrom(UsageReplies) \/ RecordBand \/ Summarize
               \/ HandleException)
  /\ []<>~NextBandEnabled

UsageSpec == Init /\ [][UsageNext]_vars /\ UsageFairness

\* ------------------------------------------------------------------------
\* The planner on its own: build_attempts applied, stage by stage, to inputs
\* drawn from bounded sets
\* ------------------------------------------------------------------------

\* The tool scripts the planner is applied to.
PlanScripts == { <<"t", "o", "o", "l">>, run_sost_candidates[1] }

\* The (dataset path, output directory) pairs the planner is applied to.
PlanTargets ==
  { << <<"a", ".", "c", "s", "v">>, <<"/", "o", "/", "a">> >>,
    << DirectBand(1), PathJoin(out_root, Stem(DirectBand(1))) >>,
    << <<"m", "y", " ", "d", "a", "t", "a", ".", "c", "s", "v">>, <<"o", "u", "t", " ", "d", "i", "r">> >> }

PlanInit ==
  /\ pc = "plan_extract"
  /\ run_sost \in PlanScripts
  /\ help_text \in HelpTexts
  /\ \E t \in PlanTargets : csv_path = t[1] /\ out_band_dir = t[2]
  /\ log_path = None
  /\ csvs = <<>>
  /\ bi = 0
  /\ flags = <<>>
  /\ subs = <<>>
  /\ input_flag = None
  /\ out_flag = None
  /\ attempts = <<>>
  /\ ai = 0
  /\ final_rc = NoRc
  /\ final_cmd = None
  /\ results = <<>>
  /\ ok_count = 0
  /\ logs = <<>>
  /\ files = NoFiles
  /\ runs = <<>>
  /\ exit_code = Running

run_vars ==
  << run_sost, help_text, csvs, results, ok_count, logs, files, runs,
     exit_code, loop_vars >>

\* build_attempts, first two statements: the Flag Extractor.
PlanExtract ==
  /\ pc = "plan_extract"
  /\ flags' = extract_long_flags(help_text)
  /\ subs' = detect_subcommands(help_text)
  /\ pc' = "plan_pick"
  /\ UNCHANGED << input_flag, out_flag, attempts, run_vars >>

\* build_attempts: keyword scoring of the input and the output flag.
PlanPick ==
  /\ pc = "plan_pick"
  /\ input_flag' = pick_best_flag(flags, InputKeywords)
  /\ out_flag' = pick_best_flag(flags, OutputKeywords)
  /\ pc' = "plan_build"
  /\ UNCHANGED << flags, subs, attempts, run_vars >>

\* build_attempts returns the plan.
PlanBuild ==
  /\ pc = "plan_build"
  /\ attempts' = build_attempts(run_sost, csv_path, out_band_dir, help_text)
  /\ pc' = "plan_done"
  /\ UNCHANGED << flags, subs, input_flag, out_flag, run_vars >>

PlanNext == PlanExtract \/ PlanPick \/ PlanBuild

PlanSpec == PlanInit /\ [][PlanNext]_vars

\* ------------------------------------------------------------------------
\* Properties
\* ------------------------------------------------------------------------

\* The child processes run for the b-th discovered dataset, in order.
RunsOf(b) == SelectSeq(runs, LAMBDA r : r.band = b)

\* The b-th dataset has its result recorded and every child process run for
\* it returned 2.
AllUsageErrors(b) ==
  /\ b >= 1
  /\ Len(results) >= b
  /\ \A k \in 1..Len(runs) : runs[k].band = b => runs[k].rc = 2

\* C1: the attempts of one dataset are executed strictly in plan order (the
\* child processes run for the current dataset are a prefix of its plan, so
\* none is skipped, repeated or reordered); once an attempt returns an exit
\* code other than 2, no later child process is run for that dataset; and
\* that attempt and its exit code are the dataset's recorded result.
C1_PlanOrderUntilFinal ==
  LET cur == RunsOf(bi)
  IN  /\ \A k \in 1..(Len(runs) - 1) :
            /\ runs[k].band <= runs[k + 1].band
            /\ runs[k].rc # 2 => runs[k].band < runs[k + 1].band
      /\ Len(cur) <= Len(attempts)
      /\ \A k \in 1..Len(cur) : cur[k].cmd = attempts[k]
      /\ \A b \in 1..Len(results) :
            LET rb == RunsOf(b)
            IN  /\ rb # <<>>
                /\ rb[Len(rb)].rc # 2 =>
                      /\ results[b].exit_code = rb[Len(rb)].rc
                      /\ results[b].cmd = Join(rb[Len(rb)].cmd)

\* Witness of C1: a dataset whose first attempt returned 2 and whose second
\* attempt returned 0 has its result recorded while its plan has more entries.
C1_Witness ==
  /\ pc = "next_band"
  /\ Len(results) = bi
  /\ bi >= 1
  /\ Len(attempts) > 2
  /\ LET cur == RunsOf(bi)
     IN  /\ Len(cur) = 2
         /\ cur[1].rc = 2
         /\ cur[2].rc = 0
         /\ results[bi].exit_code = 0

\* C2: if every attempt of a dataset's plan returned 2, then every attempt of
\* the plan was executed exactly once, the recorded exit code is 2, the
\* success flag is false and the recorded attempt is the plan's last entry.
C2_ExhaustedPlan ==
  AllUsageErrors(bi) =>
     LET cur == RunsOf(bi)
     IN  /\ Len(cur) = Len(attempts)
         /\ \A i \in 1..Len(attempts) :
               Cardinality({k \in 1..Len(cur) : cur[k].cmd = attempts[i]}) = 1
         /\ results[bi].exit_code = 2
         /\ results[bi].success = FALSE
         /\ results[bi].cmd = Join(attempts[Len(attempts)])

\* Witness of C2: a dataset whose whole plan (more than seventy attempts) was
\* rejected has its result recorded.
C2_Witness ==
  /\ AllUsageErrors(bi)
  /\ Len(RunsOf(bi)) > 70
  /\ results[bi].exit_code = 2

\* C3 as claimed: the log file of the current dataset holds a record (command
\* line and exit code) of every child process run for that dataset so far; a
\* later attempt never removes the record of an earlier one.
C3_LogKeepsEveryAttempt ==
  bi >= 1 =>
     LET cur == RunsOf(bi)
         log == ReadFile(logs, log_path)
     IN  \A k \in 1..Len(cur) :
            \E j \in 1..Len(log) :
               log[j].cmd = Join(cur[k].cmd) /\ log[j].rc = <<cur[k].rc>>

\* C4 as claimed: main returns 0 when at least one dataset passed, the
\* discovery-failure code when no dataset was discovered or the run faulted,
\* and a non-zero code different from it when datasets were discovered and
\* all of them failed.
C4_ExitCodesDistinguish ==
  pc = "done" =>
     /\ ok_count > 0 => exit_code = 0
     /\ (files.exception # <<>> \/ csvs = <<>>) =>
           exit_code = DiscoveryExit /\ exit_code # 0
     /\ (csvs # <<>> /\ ok_count = 0) =>
           exit_code # 0 /\ exit_code # DiscoveryExit

\* C5: a run that discovers at least one dataset and raises no fault returns
\* 0 if some dataset's final exit code is 0 and a non-zero code otherwise.
C5_PartialSuccessPasses ==
  (pc = "done" /\ csvs # <<>> /\ files.exception = <<>>) =>
     /\ exit_code # Running
     /\ exit_code = 0 <=> \E k \in 1..Len(results) : results[k].exit_code = 0

\* Witness of C5: a finished run in which one dataset passed and another
\* failed returns 0.
C5_Witness ==
  /\ pc = "done"
  /\ exit_code = 0
  /\ \E k \in 1..Len(results) : results[k].exit_code = 0
  /\ \E k \in 1..Len(results) : results[k].exit_code # 0

\* An exception was raised inside main's try block.
Faulted == pc = "except" \/ files.exception # <<>>

\* Number of results whose success flag is true.
Successes == Cardinality({k \in 1..Len(results) : results[k].success})

\* C6: at every point of the dataset loop the results list holds exactly one
\* BandResult per dataset processed so far (a dataset during whose attempts
\* an exception was raised is not processed), in discovery order, and ok_count
\* is the number of successful results; the persisted summary has total =
\* number of discovered datasets, ok + fail = total, ok = the number of
\* successful results, and carries one result per discovered dataset.
C6_OneResultPerDataset ==
  /\ Len(results) = IF \/ pc \in {"attempt", "run_cmd", "record"}
                       \/ (Faulted /\ bi >= 1)
                    THEN bi - 1 ELSE bi
  /\ \A k \in 1..Len(results) :
        /\ k <= Len(csvs)
        /\ results[k].csv = csvs[k]
        /\ results[k].band = Stem(csvs[k])
  /\ ok_count = Successes
  /\ files.summary # <<>> =>
        LET s == files.summary[1]
        IN  /\ s.total = Len(csvs)
            /\ s.ok + s.fail = s.total
            /\ s.ok = Successes
            /\ csvs # <<>> => (s.results = results /\ Len(s.results) = Len(csvs))

\* Witness of C6: a finished run over two datasets found outside test_data
\* (so that the discovery order is not the order of the band numbers), one of
\* which passed.
C6_Witness ==
  /\ pc = "done"
  /\ csvs = << ElsewhereBand(2), ElsewhereBand(1) >>
  /\ files.summary # <<>>
  /\ files.summary[1].total = 2
  /\ files.summary[1].ok = 1

\* C7: the plan returned by build_attempts holds no two attempts that are
\* equal as token sequences.
C7_PlanHasNoDuplicates ==
  pc = "plan_done" =>
     \A i, j \in 1..Len(attempts) : i # j => attempts[i] # attempts[j]

\* Witness of C7: a plan has been built from a list of attempts that did
\* contain duplicates.
C7_Witness ==
  /\ pc = "plan_done"
  /\ Len(attempts) < Len(RawAttempts(run_sost, csv_path, out_band_dir, help_text))

\* The fallback brute-force set for an invocation without subcommand.
FallbackSet ==
  LET base == <<sys_executable, run_sost>>
      ins == Range(hard_inputs(csv_path))
      outs == Range(hard_outs(out_band_dir))
  IN  {base \o hi \o ho : hi \in ins, ho \in outs}
      \cup {base \o hi : hi \in ins}
      \cup {base \o <<csv_path>> \o ho : ho \in outs}
      \cup {base \o <<csv_path>>}

\* C8: build_attempts always returns a non-empty plan, and for a help text
\* with no recognizable flag and no subcommand group the plan consists of the
\* fallback brute-force set.
C8_PlanNeverEmpty ==
  pc = "plan_done" =>
     /\ attempts # <<>>
     /\ (flags = <<>> /\ subs = <<>>) =>
           Range(attempts) = FallbackSet /\ Len(attempts) = Cardinality(FallbackSet)

\* Witness of C8: a plan built from a non-empty help text without flags and
\* without subcommand group.
C8_Witness ==
  /\ pc = "plan_done"
  /\ help_text = H_noflags
  /\ flags = <<>>
  /\ subs = <<>>
  /\ Len(attempts) = 72

\* The inputs of the scenario of C9.
C9_Scenario ==
  /\ help_text = H_scenario
  /\ csv_path = <<"a", ".", "c", "s", "v">>
  /\ out_band_dir = <<"/", "o", "/", "a">>

\* C9: on the scenario inputs the extracted flags are exactly --input-csv
\* and --outdir, the extracted subcommands are run, check, and the first
\* attempt is the tool invocation followed by run --input-csv a.csv
\* --outdir /o/a.
C9_ScenarioPlan ==
  C9_Scenario =>
     /\ pc \in {"plan_pick", "plan_build", "plan_done"} =>
           /\ Range(flags) = { <<"-", "-", "i", "n", "p", "u", "t", "-", "c", "s", "v">>, <<"-", "-", "o", "u", "t", "d", "i", "r">> }
           /\ Len(flags) = 2
           /\ subs = << <<"r", "u", "n">>, <<"c", "h", "e", "c", "k">> >>
     /\ pc = "plan_done" =>
           attempts[1] = << sys_executable, run_sost, <<"r", "u", "n">>, <<"-", "-", "i", "n", "p", "u", "t", "-", "c", "s", "v">>,
                            <<"a", ".", "c", "s", "v">>, <<"-", "-", "o", "u", "t", "d", "i", "r">>, <<"/", "o", "/", "a">> >>

\* Witness of C9: the plan of the scenario has been built.
C9_Witness == C9_Scenario /\ pc = "plan_done" /\ Len(attempts) > 1

\* C10: when no dataset file is discovered the summary reports the discovery
\* failure with total = ok = fail = 0, main returns the discovery-failure
\* code, no plan is built, no attempt is executed and no per-dataset result
\* or log is produced.
C10_NoDatasets ==
  (pc = "done" /\ files.discovered # <<>> /\ csvs = <<>>) =>
     /\ files.summary # <<>>
     /\ "note" \in DOMAIN files.summary[1]
     /\ files.summary[1].total = 0
     /\ files.summary[1].ok = 0
     /\ files.summary[1].fail = 0
     /\ exit_code = DiscoveryExit
     /\ attempts = <<>>
     /\ runs = <<>>
     /\ results = <<>>
     /\ logs = <<>>

\* Witness of C10: a run that located the tool, discovered nothing and
\* returned.
C10_Witness ==
  /\ pc = "done"
  /\ run_sost # None
  /\ files.discovered = << <<>> >>
  /\ csvs = <<>>


\* C11 as claimed: when the target tool cannot be located, no dataset is
\* processed, main returns a non-zero code and the failure is reported in
\* the summary artifact.
C11_MissingToolInSummary ==
  (pc = "done" /\ run_sost = None) =>
     /\ runs = <<>>
     /\ results = <<>>
     /\ attempts = <<>>
     /\ exit_code # 0
     /\ files.summary # <<>>

\* The exit code a dataset's result must carry given the child processes rb
\* run for it: the last exit code when it is not 2, else 2.
OwnOutcome(rb) == IF rb[Len(rb)].rc # 2 THEN rb[Len(rb)].rc ELSE 2

\* C12: a dataset whose search ends with a non-zero exit code other than 2
\* is recorded as a failure with that code; the suite is not aborted: a run
\* that returns after discovery without an exception raised (an internal
\* fault aborts the whole run) has a result for every discovered dataset;
\* every dataset is processed from the first attempt of its own plan (its
\* first child process is given its own path, and the current dataset's is
\* the first entry of its plan); and each result is determined by the exit
\* codes of the dataset's own attempts.
C12_FailureIsLocal ==
  /\ \A b \in 1..Len(results) :
        LET rb == RunsOf(b)
        IN  /\ rb # <<>>
            /\ csvs[b] \in Range(rb[1].cmd)
            /\ results[b].exit_code = OwnOutcome(rb)
            /\ results[b].success = (OwnOutcome(rb) = 0)
            /\ rb[Len(rb)].rc \notin {0, 2} =>
                  results[b].exit_code = rb[Len(rb)].rc /\ ~results[b].success
  /\ (bi >= 1 /\ RunsOf(bi) # <<>>) => RunsOf(bi)[1].cmd = attempts[1]
  /\ (pc = "done" /\ csvs # <<>> /\ ~Faulted) => Len(results) = Len(csvs)

\* Witness of C12: in a finished run the first dataset failed with exit code
\* 1 and the second, discovered after it, was processed and passed.
C12_Witness ==
  /\ pc = "done"
  /\ Len(results) = 2
  /\ results[1].exit_code = 1
  /\ results[2].exit_code = 0
  /\ RunsOf(2) # <<>>

\* What C13 says of each state of a run against a tool that always exits 2:
\* once a dataset is recorded, the number of child processes run for it is
\* the length of its plan and no attempt was run twice; every recorded
\* dataset failed with exit code 2; a finished run returned a failure status
\* and, unless an exception was raised, has a result for every discovered
\* dataset.
C13_Exhaustive ==
  /\ (bi >= 1 /\ Len(results) = bi) =>
        LET cur == RunsOf(bi)
        IN  /\ Len(cur) = Len(attempts)
            /\ \A i, j \in 1..Len(cur) : i # j => cur[i].cmd # cur[j].cmd
  /\ \A b \in 1..Len(results) :
        results[b].exit_code = 2 /\ results[b].success = FALSE
  /\ pc = "done" =>
        /\ exit_code \notin {0, Running}
        /\ ~Faulted => Len(results) = Len(csvs)

\* C13: against a tool that exits 2 for every invocation the run never
\* hangs: it performs, for each dataset, exactly as many executions as the
\* plan has attempts, none twice, reports every dataset failed with exit
\* code 2, and eventually returns with a failure status.  A run aborted by
\* an exception returns with a failure status as well, with a result for
\* the datasets processed before it only.
C13_AlwaysRejectedTerminates == []C13_Exhaustive /\ <>(pc = "done")

\* Witness of C13: a finished run over two datasets, both rejected on every
\* attempt of their plans.
C13_Witness ==
  /\ pc = "done"
  /\ Len(csvs) = 2
  /\ Len(results) = 2
  /\ Len(runs) > 140
  /\ \A k \in 1..Len(runs) : runs[k].rc = 2
  /\ exit_code = 2


\* The planner has chosen its input and output flags.
Picked == pc \in {"plan_build", "plan_done"}

\* The flag the scoring rule of C14 designates in fl for the keywords kw: the
\* flag at the least position whose score is the maximum score when that
\* maximum is positive, none otherwise.
FirstBest(fl, kw) ==
  LET sc == [i \in 1..Len(fl) |-> Score(Lower(fl[i]), kw)]
      top == {i \in 1..Len(fl) : sc[i] > 0 /\ \A j \in 1..Len(fl) : sc[j] <= sc[i]}
  IN  IF top = {} THEN None
      ELSE fl[CHOOSE i \in top : \A j \in top : i <= j]

\* C14: for the extracted flag sequence and each keyword set, pick_best_flag
\* returns the first flag in encounter order whose score is the maximum
\* score, provided that maximum is positive (a later flag with an equal score
\* never replaces it), and none when every flag scores zero or there is no
\* flag; the choice is a function of the flag sequence and the keyword set.
C14_FirstMaximumWins ==
  Picked =>
    /\ input_flag = FirstBest(flags, InputKeywords)
    /\ out_flag = FirstBest(flags, OutputKeywords)
    /\ input_flag = pick_best_flag(flags, InputKeywords)
    /\ out_flag = pick_best_flag(flags, OutputKeywords)

\* Witness of C14: two flags tie for the best input score and two for the
\* best output score, and the earlier one of each pair was chosen.
C14_Witness ==
  /\ Picked
  /\ flags = << <<"-", "-", "f", "i", "l", "e", "-", "a">>, <<"-", "-", "o", "u", "t">>, <<"-", "-", "p", "a", "t", "h", "-", "b">>, <<"-", "-", "r", "e", "s", "u", "l", "t">> >>
  /\ Score(Lower(flags[1]), InputKeywords) = Score(Lower(flags[3]), InputKeywords)
  /\ Score(Lower(flags[2]), OutputKeywords) = Score(Lower(flags[4]), OutputKeywords)
  /\ input_flag = flags[1]
  /\ out_flag = flags[2]

\* The command line prefix shared by the attempts of one subcommand
\* candidate.
BaseOf(subcmd) ==
  <<sys_executable, run_sost>> \o (IF subcmd # None THEN <<subcmd>> ELSE <<>>)

\* The two values a planned attempt may give to an output flag.
OutValues == {out_band_dir, PathJoin(out_band_dir, OutFileName)}

\* cmd is base, then the dataset passed through the input flag (with_input)
\* or positionally, then the output flag with a value (with_out and an output
\* flag was identified) or nothing.
IsCombination(cmd, base, with_input, with_out) ==
  LET inpart == IF with_input THEN <<input_flag, csv_path>> ELSE <<csv_path>>
  IN  IF with_out /\ out_flag # None
      THEN \E v \in OutValues : cmd = base \o inpart \o <<out_flag, v>>
      ELSE cmd = base \o inpart

\* C15: before deduplication the heuristic step holds, for each subcommand
\* candidate in turn, exactly four attempts when an input flag was
\* identified, in the order (input flag, output flag), (input flag, no
\* output flag), (positional path, output flag), (positional path, no output
\* flag), and exactly the last two of these when no input flag was
\* identified.
C15_HeuristicCombinations ==
  pc = "plan_done" =>
    LET heur == HeuristicAttempts(run_sost, csv_path, out_band_dir, help_text)
        cands == subcmds_to_try(subs)
        per == IF input_flag # None THEN 4 ELSE 2
    IN  /\ Len(heur) = per * Len(cands)
        /\ \A k \in 1..Len(cands) :
              LET at == (k - 1) * per
                  base == BaseOf(cands[k])
              IN  IF input_flag # None
                  THEN /\ IsCombination(heur[at + 1], base, TRUE, TRUE)
                       /\ IsCombination(heur[at + 2], base, TRUE, FALSE)
                       /\ IsCombination(heur[at + 3], base, FALSE, TRUE)
                       /\ IsCombination(heur[at + 4], base, FALSE, FALSE)
                  ELSE /\ IsCombination(heur[at + 1], base, FALSE, TRUE)
                       /\ IsCombination(heur[at + 2], base, FALSE, FALSE)

\* Witness of C15: a plan built with an input flag, an output flag and two
\* subcommand candidates, so eight heuristic attempts.
C15_Witness ==
  /\ pc = "plan_done"
  /\ input_flag # None
  /\ out_flag # None
  /\ Len(subcmds_to_try(subs)) = 2
  /\ Len(HeuristicAttempts(run_sost, csv_path, out_band_dir, help_text)) = 8

\* The least position of seq that holds a.
FirstPos(seq, a) ==
  CHOOSE i \in 1..Len(seq) : seq[i] = a /\ \A j \in 1..(i - 1) : seq[j] # a

\* C16: the plan is the heuristic attempts of every subcommand candidate
\* followed by the fallback attempts of every subcommand candidate, with
\* later duplicates removed: it has the same set of attempts as that
\* concatenation, its attempts are ordered by their first occurrence in it
\* (so none occurs twice), and every attempt that occurs only among the
\* fallback attempts comes after every heuristic attempt.
C16_PlanIsDedupedConcatenation ==
  pc = "plan_done" =>
    LET heur == HeuristicAttempts(run_sost, csv_path, out_band_dir, help_text)
        fall == FallbackAttempts(run_sost, csv_path, out_band_dir, help_text)
        both == heur \o fall
        pos == [k \in 1..Len(attempts) |-> FirstPos(both, attempts[k])]
    IN  /\ Range(attempts) = Range(both)
        /\ \A k \in 1..(Len(attempts) - 1) : pos[k] < pos[k + 1]
        /\ \A i, j \in 1..Len(attempts) :
              (attempts[i] \notin Range(heur) /\ attempts[j] \in Range(heur)) => j < i

\* Witness of C16: a plan from which duplicates were removed, one of them a
\* fallback attempt equal to a heuristic attempt.
C16_Witness ==
  /\ pc = "plan_done"
  /\ LET heur == HeuristicAttempts(run_sost, csv_path, out_band_dir, help_text)
         fall == FallbackAttempts(run_sost, csv_path, out_band_dir, help_text)
     IN  /\ Len(attempts) < Len(heur) + Len(fall)
         /\ Range(heur) \cap Range(fall) # {}
         /\ Range(fall) \ Range(heur) # {}

\* What follows the dataset path in the attempt cmd: <<>>, or the output
\* flag and its value.  An attempt is python, the script, at most one
\* subcommand, the dataset path with or without a flag before it, and then
\* the output part.
OutputPart(cmd) ==
  LET at == CHOOSE i \in 3..5 : i <= Len(cmd) /\ cmd[i] = csv_path
                                /\ \A j \in 3..(i - 1) : cmd[j] # csv_path
  IN  SubSeq(cmd, at + 1, Len(cmd))

\* The value the output-kind rule gives to the output flag f.
KindValue(f) ==
  IF Contains(<<"d", "i", "r">>, Lower(f)) \/ Contains(<<"f", "o", "l", "d", "e", "r">>, Lower(f))
  THEN out_band_dir
  ELSE PathJoin(out_band_dir, OutFileName)

\* C17: in every attempt of a plan that carries an output flag after the
\* dataset path, heuristic or fallback, the flag is followed by the output
\* directory itself when its lowercased name contains "dir" or "folder" and
\* by the fixed filename inside the output directory otherwise; so no
\* attempt gives the bare directory to a file-expecting flag or the fixed
\* file to a directory-expecting flag.
C17_OutputValueMatchesKind ==
  pc = "plan_done" =>
    \A k \in 1..Len(attempts) :
      LET part == OutputPart(attempts[k])
      IN  part # <<>> => (Len(part) = 2 /\ part[2] = KindValue(part[1]))

\* Witness of C17: a plan whose chosen output flag is directory-expecting by
\* "folder" in mixed case and gets the directory, next to a fallback attempt
\* that gives the fixed file to --out.
C17_Witness ==
  /\ pc = "plan_done"
  /\ out_flag = <<"-", "-", "O", "u", "t", "_", "F", "o", "l", "d", "e", "r">>
  /\ \E k \in 1..Len(attempts) : OutputPart(attempts[k]) = <<out_flag, out_band_dir>>
  /\ \E k \in 1..Len(attempts) :
        OutputPart(attempts[k]) = << <<"-", "-", "o", "u", "t">>, PathJoin(out_band_dir, OutFileName) >>

\* The flag f stands in text at position p as a whole token: "--", an
\* alphanumeric character, then flag characters up to a character that is
\* none.
StandsAt(text, f, p) ==
  /\ p + Len(f) - 1 <= Len(text)
  /\ SubSeq(text, p, p + Len(f) - 1) = f
  /\ (p + Len(f) <= Len(text) => text[p + Len(f)] \notin FlagChar)

\* The character before position p of text, if any, is neither a dash nor a
\* word character.
FreeBefore(text, p) ==
  p > 1 => text[p - 1] \notin (AlNum \cup {"-", "_"})

\* C18: every extracted flag stands somewhere in the help text with its
\* double dash not directly after a dash or a word character (a double dash
\* that directly follows one, as in "---x" or "a--b", contributes no flag),
\* and the extracted sequence holds each flag once.
C18_NoFlagInsideWord ==
  pc # "plan_extract" =>
    /\ \A i \in 1..Len(flags) :
          \E p \in 1..Len(help_text) :
              StandsAt(help_text, flags[i], p) /\ FreeBefore(help_text, p)
    /\ \A i, j \in 1..Len(flags) : i # j => flags[i] # flags[j]

\* C19: for every dataset result, the recorded command is the last attempt
\* that was executed for that dataset, the recorded exit code is the exit
\* code that attempt returned, every attempt executed for the dataset before
\* it returned 2, and the success flag is true exactly when the recorded
\* exit code is 0.
C19_ResultIsLastExecution ==
  \A b \in 1..Len(results) :
    LET rb == RunsOf(b)
        n == Len(rb)
    IN  /\ n >= 1
        /\ results[b].cmd = Join(rb[n].cmd)
        /\ results[b].exit_code = rb[n].rc
        /\ \A k \in 1..(n - 1) : rb[k].rc = 2
        /\ results[b].success = (results[b].exit_code = 0)

\* Witness of C19: a dataset recorded as a success after an attempt that
\* returned 2, next to a dataset recorded as a failure with exit code 1.
C19_Witness ==
  /\ Len(results) = 2
  /\ \E b \in 1..2 :
        /\ Len(RunsOf(b)) = 2
        /\ RunsOf(b)[1].rc = 2
        /\ results[b].success
  /\ \E b \in 1..2 : results[b].exit_code = 1 /\ ~results[b].success

\* C20: whenever the planner has chosen both an input flag and an output
\* flag they are different option names, so no heuristic attempt passes the
\* dataset path and the output location through the same flag.
C20_FlagsDiffer ==
  /\ (Picked /\ input_flag # None /\ out_flag # None) => input_flag # out_flag
  /\ pc = "plan_done" =>
        \A k \in 1..Len(attempts) : \A f \in Range(flags) :
            ~(\E i, j \in 1..Len(attempts[k]) :
                 /\ i + 1 < j
                 /\ attempts[k][i] = f /\ attempts[k][i + 1] = csv_path
                 /\ attempts[k][j] = f)
=============================================================================
